---- MODULE Spec2Model ----
(***************************************************************************)
(* Model of the chunking-and-orchestration core of autoglm-asr-mcp.        *)
(*                                                                         *)
(*   SpecSeg    the segmentation loop of splitAudio          (audio.ts)    *)
(*   SpecChunk  one transcribeChunk call: attempts, timeout, retry,        *)
(*              backoff                    (transcriber.ts, errors.ts)     *)
(*   Spec       one ASRTranscriber.transcribe run: limiter, context modes, *)
(*              result map, assembly                 (transcriber.ts)      *)
(*                                                                         *)
(* The repository holds two generations of transcriber.ts: the chat       *)
(* completions one (three context modes) and the /audio/transcriptions    *)
(* one (every mode runs in parallel).  `variant` says which one runs.      *)
(* Times are whole seconds unless a name ends in Ms.                       *)
(***************************************************************************)
EXTENDS Integers, Sequences, FiniteSets, TLC

VARIABLES
    \* ---- splitAudio
    totalDuration, maxChunkDurationSec, silenceRanges, currentStart,
    chunkIndex, segChunks, tempDir, detectCalled, spc,
    \* ---- transcribeChunk
    variant, maxRetries, requestTimeout, attempt, cpc, elapsed, timerArmed,
    sleepLeftMs, sleptMs, delays, requests, errs, statusLog, callResult, callErr,
    decoded,
    \* ---- transcribe
    chunks, contextMode, concurrency, pc, queue, task, taskCtx, taskErr,
    results, segmentResults, context, cursor, runResult, runError,
    \* ---- history of a run: transcribeChunk calls started per chunk,
    \* whether a limited task completed before one of a lower index, and the
    \* JSON body the service answered each chunk's call with, and the writers
    \* of each slot of the result map, in the order they wrote
    calls, outOfOrder, served, writes,
    \* ---- transcribeChunk calls running side by side under the limiter
    sib,
    \* ---- the transcribe_audio tool: environment, singleton, one request
    apiKey, transcriber, tpc, request, maxConcurrency, ops, materialized,
    limit, sent, response, handled

segVars == <<totalDuration, maxChunkDurationSec, silenceRanges, currentStart,
             chunkIndex, segChunks, tempDir, detectCalled, spc>>
callVars == <<maxRetries, requestTimeout, attempt, cpc, elapsed, timerArmed,
              sleepLeftMs, sleptMs, delays, requests, errs, statusLog,
              callResult, callErr, decoded>>
runVars == <<chunks, contextMode, concurrency, pc, queue, task, taskCtx,
             taskErr, results, segmentResults, context, cursor, runResult,
             runError, calls, outOfOrder, served, writes>>
toolVars == <<apiKey, transcriber, tpc, request, maxConcurrency, ops,
              materialized, limit, sent, response, handled>>
vars == <<segVars, callVars, runVars, variant, sib, toolVars>>

\* what the actions of one specification leave alone
RunFrame == UNCHANGED <<segVars, callVars, variant, sib, toolVars>>
CallFrame ==
    UNCHANGED <<segVars, runVars, variant, maxRetries, requestTimeout, sib, toolVars>>
SegFrame == UNCHANGED <<callVars, runVars, variant, sib, toolVars>>
SibFrame == UNCHANGED <<segVars, callVars, runVars, variant, toolVars>>
ToolFrame == UNCHANGED <<segVars, callVars, runVars, variant, sib, apiKey>>

-----------------------------------------------------------------------------
(* Bounds of the model *)

MaxRetriesBound == 3      \* largest configured maxRetries explored
MaxTimeout == 2           \* largest configured requestTimeout (seconds) explored
Overrun == 1              \* seconds an attempt is followed past its timeout
MaxSiblings == 2          \* transcribeChunk calls followed side by side
MaxSiblingRetries == 1    \* largest maxRetries explored for calls side by side
MaxToolChunks == 2        \* most chunks of a file handed to the tool
MaxToolCalls == 2         \* transcribe_audio requests handled by one server

(* Program constants *)

MsPerSec == 1000          \* requestTimeout * 1000
BackoffMs == 1000         \* 1000 * (attempt + 1)
NoStatus == 0             \* statusCode undefined

Variants == {"chat", "transcriptions"}

-----------------------------------------------------------------------------
(* errors.ts: APIError and its factories.  An error is a record; `cause`   *)
(* holds the kind, status and retryable flag of the wrapped error.         *)

NoCause == [kind |-> "none", statusCode |-> NoStatus, retryable |-> FALSE]

Core(e) == [kind |-> e.kind, statusCode |-> e.statusCode, retryable |-> e.retryable]

APIError(kind, statusCode, retryable, cause) ==
    [kind |-> kind, statusCode |-> statusCode, retryable |-> retryable,
     attempts |-> 0, cause |-> cause]

fromResponseNo429(status) ==
    APIError("http", status, status >= 500, NoCause)

fromResponse(status) ==
    APIError("http", status, status >= 500 \/ status = 429, NoCause)

timeout(timeoutSec) == APIError("timeout", NoStatus, TRUE, NoCause)

maxRetriesExceeded(attempts, lastError) ==
    [kind |-> "maxRetriesExceeded", statusCode |-> NoStatus, retryable |-> FALSE,
     attempts |-> attempts, cause |-> Core(lastError)]

\* new APIError(String(error), undefined, true, error): anything thrown that is
\* neither an APIError nor an AbortError
RawError == [kind |-> "raw", statusCode |-> NoStatus, retryable |-> FALSE]
\* the normalised error of a rejection, were it not retryable
networkErrorFatal == APIError("network", NoStatus, FALSE, RawError)

networkError == APIError("network", NoStatus, TRUE, RawError)

NoError == APIError("none", NoStatus, FALSE, NoCause)

-----------------------------------------------------------------------------
(* A text is a sequence of tokens; a token stands for one character of the *)
(* string, or for one word of a stock phrase.                              *)

Undefined == <<"undefined">>
EmptyText == <<>>
NoSpeech == <<"No", "speech">>
Texts == {EmptyText, <<"a", "b">>, <<"c">>, NoSpeech}


-----------------------------------------------------------------------------
(* transcribeChunk: the JSON body of a 2xx response and its normalisation. *)

Seg(a, b, t) == [start |-> a, end |-> b, text |-> t]

Body(text, segments, choice, content) ==
    [text |-> text, segments |-> segments, choice |-> choice, content |-> content]

Bodies ==
    { Body(<<"a", "b">>, <<Seg(0, 1, <<"a", "b">>)>>, Undefined, Undefined),
      Body(EmptyText, <<>>, <<"c">>, Undefined),
      Body(Undefined, <<>>, <<"c">>, <<"a", "b">>),
      Body(Undefined, <<>>, EmptyText, NoSpeech),
      Body(Undefined, <<>>, Undefined, Undefined) }

NoBody == Body(Undefined, <<>>, Undefined, <<"none">>)

Truthy(t) == t # Undefined /\ t # EmptyText

Outcome(text, segments) == [text |-> text, segments |-> segments]

\* chat completions generation: choices[0].message.content, then content, then ""
NormalizeChat(body) ==
    IF Truthy(body.choice) THEN Outcome(body.choice, <<>>)
    ELSE IF Truthy(body.content) THEN Outcome(body.content, <<>>)
    ELSE Outcome(EmptyText, <<>>)

\* /audio/transcriptions generation: { text, segments } first, then the fallback
NormalizeRich(body) ==
    IF body.text # Undefined THEN Outcome(body.text, body.segments)
    ELSE NormalizeChat(body)

Normalize(v, body) == IF v = "chat" THEN NormalizeChat(body) ELSE NormalizeRich(body)

NoOutcome == Outcome(Undefined, <<>>)

\* HTTP statuses the service is made to answer with
Statuses == {200, 304, 400, 401, 428, 429, 430, 499, 500, 503}
Ok(status) == status >= 200 /\ status <= 299

-----------------------------------------------------------------------------
(* transcribeChunk: one call.  cpc is the position of the call:            *)
(*   loop      at the for-loop test                                        *)
(*   fetching  awaiting fetch(), abort timer armed                         *)
(*   body      awaiting response.json(), abort timer cleared               *)
(*   backoff   awaiting the backoff setTimeout                             *)
(*   returned / thrown                                                     *)

InitCall ==
    /\ attempt = 0
    /\ cpc = "loop"
    /\ elapsed = 0
    /\ timerArmed = FALSE
    /\ sleepLeftMs = 0
    /\ sleptMs = 0
    /\ delays = <<>>
    /\ requests = 0
    /\ errs = <<>>
    /\ statusLog = <<>>
    /\ callResult = NoOutcome
    /\ callErr = NoError
    /\ decoded = NoBody

IdleCall ==
    /\ maxRetries = 0
    /\ requestTimeout = 1
    /\ InitCall

\* a last-attempt test that never holds
isLastAttemptNever == FALSE

isLastAttempt == attempt = maxRetries

BackoffDelayConstant(k) == BackoffMs

BackoffDelay(k) == BackoffMs * (k + 1)

\* the catch block, wrapping before it looks at the retryable flag
CatchWrapsFirst(error, status) ==
    /\ errs' = Append(errs, error)
    /\ statusLog' = Append(statusLog, status)
    /\ timerArmed' = FALSE
    /\ IF isLastAttempt
       THEN /\ cpc' = "thrown"
            /\ callErr' = maxRetriesExceeded(maxRetries + 1, error)
            /\ UNCHANGED <<sleepLeftMs, sleptMs>>
       ELSE IF ~error.retryable
       THEN /\ cpc' = "thrown"
            /\ callErr' = error
            /\ UNCHANGED <<sleepLeftMs, sleptMs>>
       ELSE /\ cpc' = "backoff"
            /\ sleepLeftMs' = BackoffDelay(attempt)
            /\ sleptMs' = 0
            /\ UNCHANGED callErr
    /\ UNCHANGED <<attempt, elapsed, delays, requests, callResult>>

\* the catch block, giving up after the first failure
CatchNoRetry(error, status) ==
    /\ errs' = Append(errs, error)
    /\ statusLog' = Append(statusLog, status)
    /\ timerArmed' = FALSE
    /\ cpc' = "thrown"
    /\ callErr' = IF error.retryable
                  THEN maxRetriesExceeded(maxRetries + 1, error) ELSE error
    /\ UNCHANGED <<attempt, elapsed, delays, requests, callResult,
                   sleepLeftMs, sleptMs>>

\* the catch block: `error` is the normalised error, `status` the HTTP status
\* that produced it (NoStatus when the attempt got no response)
Catch(error, status) ==
    /\ errs' = Append(errs, error)
    /\ statusLog' = Append(statusLog, status)
    \* the attempt's timer is cleared, has fired, or is left pending on a
    \* controller whose fetch has settled: it can abort nothing any more
    /\ timerArmed' = FALSE
    /\ IF ~error.retryable
       THEN /\ cpc' = "thrown"
            /\ callErr' = error
            /\ UNCHANGED <<sleepLeftMs, sleptMs>>
       ELSE IF isLastAttempt
       THEN /\ cpc' = "thrown"
            /\ callErr' = maxRetriesExceeded(maxRetries + 1, error)
            /\ UNCHANGED <<sleepLeftMs, sleptMs>>
       ELSE /\ cpc' = "backoff"
            /\ sleepLeftMs' = BackoffDelay(attempt)
            /\ sleptMs' = 0
            /\ UNCHANGED callErr
    /\ UNCHANGED <<attempt, elapsed, delays, requests, callResult>>

\* for-loop test passes: new AbortController, setTimeout(abort), fetch()
StartAttempt ==
    /\ cpc = "loop"
    /\ attempt <= maxRetries
    /\ cpc' = "fetching"
    /\ elapsed' = 0
    /\ timerArmed' = TRUE
    /\ requests' = requests + 1
    /\ UNCHANGED <<attempt, sleepLeftMs, sleptMs, delays, errs, statusLog,
                   callResult, callErr>>
    /\ UNCHANGED decoded
    /\ CallFrame

\* for-loop test fails: the return after the loop
RetryLoopExit ==
    /\ cpc = "loop"
    /\ attempt > maxRetries
    /\ cpc' = "returned"
    /\ callResult' = Outcome(EmptyText, <<>>)
    /\ UNCHANGED <<attempt, elapsed, timerArmed, sleepLeftMs, sleptMs, delays,
                   requests, errs, statusLog, callErr>>
    /\ UNCHANGED decoded
    /\ CallFrame

\* one second passes while the attempt is awaiting fetch() or response.json();
\* an armed timer lets no second pass beyond requestTimeout
TickRequest ==
    /\ cpc \in {"fetching", "body"}
    /\ elapsed < requestTimeout + Overrun
    /\ timerArmed => elapsed < requestTimeout
    /\ elapsed' = elapsed + 1
    /\ UNCHANGED <<attempt, cpc, timerArmed, sleepLeftMs, sleptMs, delays,
                   requests, errs, statusLog, callResult, callErr>>
    /\ UNCHANGED decoded
    /\ CallFrame

\* the abort timer fires: fetch rejects with AbortError -> APIError.timeout
TimeoutFires ==
    /\ cpc = "fetching"
    /\ timerArmed
    /\ elapsed * MsPerSec >= requestTimeout * MsPerSec
    /\ Catch(timeout(requestTimeout), NoStatus)
    /\ UNCHANGED decoded
    /\ CallFrame

\* fetch rejects (network failure): neither APIError nor AbortError
FetchRejects ==
    /\ cpc = "fetching"
    /\ Catch(networkError, NoStatus)
    /\ UNCHANGED decoded
    /\ CallFrame

\* fetch resolves: clearTimeout, then the response.ok test
ResponseArrives(status) ==
    /\ cpc = "fetching"
    /\ IF ~Ok(status)
       THEN Catch(fromResponse(status), status)
       ELSE /\ cpc' = "body"
            /\ timerArmed' = FALSE
            /\ UNCHANGED <<attempt, elapsed, sleepLeftMs, sleptMs, delays,
                           requests, errs, statusLog, callResult, callErr>>
    /\ UNCHANGED decoded
    /\ CallFrame

\* response.json() resolves: the call returns the normalised outcome
BodyDecoded(body) ==
    /\ cpc = "body"
    /\ cpc' = "returned"
    /\ callResult' = Normalize(variant, body)
    /\ UNCHANGED <<attempt, elapsed, timerArmed, sleepLeftMs, sleptMs, delays,
                   requests, errs, statusLog, callErr>>
    /\ decoded' = body
    /\ CallFrame

\* response.json() rejects (broken body, connection lost)
BodyRejects ==
    /\ cpc = "body"
    /\ Catch(networkError, NoStatus)
    /\ UNCHANGED decoded
    /\ CallFrame

\* one second of the backoff setTimeout passes
TickBackoff ==
    /\ cpc = "backoff"
    /\ sleepLeftMs > 0
    /\ sleepLeftMs' = sleepLeftMs - MsPerSec
    /\ sleptMs' = sleptMs + MsPerSec
    /\ UNCHANGED <<attempt, cpc, elapsed, timerArmed, delays, requests, errs,
                   statusLog, callResult, callErr>>
    /\ UNCHANGED decoded
    /\ CallFrame

\* the backoff setTimeout resolves: attempt++ and back to the loop test
BackoffElapses ==
    /\ cpc = "backoff"
    /\ sleepLeftMs <= 0
    /\ attempt' = attempt + 1
    /\ cpc' = "loop"
    /\ delays' = Append(delays, sleptMs)
    /\ UNCHANGED <<elapsed, timerArmed, sleepLeftMs, sleptMs, requests, errs,
                   statusLog, callResult, callErr>>
    /\ UNCHANGED decoded
    /\ CallFrame


-----------------------------------------------------------------------------
(* splitAudio: segmentation.                                               *)

MaxDuration == 5          \* longest file (seconds) explored
MaxChunkDur == 3          \* largest maxChunkDurationSec explored
MaxSilence == 2           \* most silence intervals detected in a file

NoSplit == -1             \* bestSplit = null

Min(a, b) == IF a <= b THEN a ELSE b

\* silence intervals ffmpeg may report, in any order; their midpoints are whole
SilenceRange(m) == [start |-> m - 1, end |-> m + 1]
SilenceLists ==
    UNION { [1..n -> {SilenceRange(m) : m \in 1..MaxDuration}] : n \in 0..MaxSilence }

Midpoint(r) == (r.start + r.end) \div 2

silenceMidpoints == [i \in 1..Len(silenceRanges) |-> Midpoint(silenceRanges[i])]

\* the for-of loop over silenceMidpoints, stopping at the first match
RECURSIVE FirstSplitFrom(_, _, _, _, _)
FirstSplitFrom(mids, i, best, cs, idealEnd) ==
    IF i > Len(mids) THEN best
    ELSE IF mids[i] > cs /\ mids[i] <= idealEnd THEN mids[i]
    ELSE FirstSplitFrom(mids, i + 1, best, cs, idealEnd)

\* the for-of loop over silenceMidpoints: every match overwrites bestSplit
RECURSIVE BestSplitFrom(_, _, _, _, _)
BestSplitFrom(mids, i, best, cs, idealEnd) ==
    IF i > Len(mids) THEN best
    ELSE BestSplitFrom(mids, i + 1,
                       IF mids[i] > cs /\ mids[i] <= idealEnd THEN mids[i] ELSE best,
                       cs, idealEnd)

FirstSplit(mids, cs, idealEnd) == FirstSplitFrom(mids, 1, NoSplit, cs, idealEnd)

BestSplit(mids, cs, idealEnd) == BestSplitFrom(mids, 1, NoSplit, cs, idealEnd)

\* an ideal end that does not move past currentStart
IdealEndStuck(cs) == cs

IdealEnd(cs) == cs + maxChunkDurationSec

\* bestSplit ?? Math.min(idealEnd, totalDuration), without the idealEnd cap
ActualEndUncapped(cs) ==
    LET bestSplit == BestSplit(silenceMidpoints, cs, IdealEnd(cs))
    IN  IF bestSplit # NoSplit THEN bestSplit ELSE totalDuration

\* bestSplit ?? Math.min(idealEnd, totalDuration)
ActualEnd(cs) ==
    LET bestSplit == BestSplit(silenceMidpoints, cs, IdealEnd(cs))
    IN  IF bestSplit # NoSplit THEN bestSplit ELSE Min(IdealEnd(cs), totalDuration)

\* Math.round(seconds * 1000) over whole seconds
RoundMs(sec) == sec * MsPerSec

\* data: the audio extractSegment was asked for
AudioChunk(index, start, end, silent) ==
    [data |-> [start |-> start, duration |-> end - start],
     startMs |-> RoundMs(start), endMs |-> RoundMs(end),
     index |-> index, isSilent |-> silent]

InitSplit ==
    /\ currentStart = 0
    /\ chunkIndex = 0
    /\ segChunks = <<>>
    /\ tempDir = FALSE
    /\ detectCalled = FALSE
    /\ spc = "probe"

IdleSeg ==
    /\ totalDuration = 0
    /\ maxChunkDurationSec = 1
    /\ silenceRanges = <<>>
    /\ InitSplit

\* runFFprobe resolves with the duration
ProbeResolves ==
    /\ spc = "probe"
    /\ spc' = "start"
    /\ UNCHANGED <<totalDuration, maxChunkDurationSec, silenceRanges,
                   currentStart, chunkIndex, segChunks, tempDir>>
    /\ UNCHANGED detectCalled
    /\ SegFrame

\* runFFprobe rejects
ProbeFails ==
    /\ spc = "probe"
    /\ spc' = "thrown"
    /\ UNCHANGED <<totalDuration, maxChunkDurationSec, silenceRanges,
                   currentStart, chunkIndex, segChunks, tempDir>>
    /\ UNCHANGED detectCalled
    /\ SegFrame

\* totalDuration <= maxChunkDurationSec: mkdtemp
BeginSingle ==
    /\ spc = "start"
    /\ totalDuration <= maxChunkDurationSec
    /\ tempDir' = TRUE
    /\ spc' = "single"
    /\ UNCHANGED <<totalDuration, maxChunkDurationSec, silenceRanges,
                   currentStart, chunkIndex, segChunks>>
    /\ UNCHANGED detectCalled
    /\ SegFrame

\* the single-chunk path returning no chunk for an empty file
ExtractSingleSkipsEmpty(silent) ==
    /\ spc = "single"
    /\ segChunks' = IF totalDuration = 0 THEN <<>>
                    ELSE <<AudioChunk(0, 0, totalDuration, silent)>>
    /\ tempDir' = FALSE
    /\ spc' = "returned"
    /\ UNCHANGED <<totalDuration, maxChunkDurationSec, silenceRanges,
                   currentStart, chunkIndex>>
    /\ UNCHANGED detectCalled
    /\ SegFrame

\* extractSegment, readFile, calculateRMS, return [chunk]; finally rm
ExtractSingle(silent) ==
    /\ spc = "single"
    /\ segChunks' = <<AudioChunk(0, 0, totalDuration, silent)>>
    /\ tempDir' = FALSE
    /\ spc' = "returned"
    /\ UNCHANGED <<totalDuration, maxChunkDurationSec, silenceRanges,
                   currentStart, chunkIndex>>
    /\ UNCHANGED detectCalled
    /\ SegFrame

\* extractSegment or readFile rejects; finally rm
ExtractSingleFails ==
    /\ spc = "single"
    /\ tempDir' = FALSE
    /\ spc' = "thrown"
    /\ UNCHANGED <<totalDuration, maxChunkDurationSec, silenceRanges,
                   currentStart, chunkIndex, segChunks>>
    /\ UNCHANGED detectCalled
    /\ SegFrame

\* detectSilenceRanges is called and resolves; mkdtemp; currentStart = 0
BeginLoop ==
    /\ spc = "start"
    /\ totalDuration > maxChunkDurationSec
    /\ tempDir' = TRUE
    /\ currentStart' = 0
    /\ chunkIndex' = 0
    /\ spc' = "loop"
    /\ UNCHANGED <<totalDuration, maxChunkDurationSec, silenceRanges, segChunks>>
    /\ detectCalled' = TRUE
    /\ SegFrame

\* detectSilenceRanges is called and rejects
DetectFails ==
    /\ spc = "start"
    /\ totalDuration > maxChunkDurationSec
    /\ spc' = "thrown"
    /\ UNCHANGED <<totalDuration, maxChunkDurationSec, silenceRanges,
                   currentStart, chunkIndex, segChunks, tempDir>>
    /\ detectCalled' = TRUE
    /\ SegFrame

\* one iteration of while (currentStart < totalDuration)
LoopStep(silent) ==
    /\ spc = "loop"
    /\ currentStart < totalDuration
    /\ LET actualEnd == ActualEnd(currentStart)
       IN  /\ segChunks' = Append(segChunks,
                                  AudioChunk(chunkIndex, currentStart, actualEnd, silent))
           /\ currentStart' = actualEnd
    /\ chunkIndex' = chunkIndex + 1
    /\ UNCHANGED <<totalDuration, maxChunkDurationSec, silenceRanges, tempDir, spc>>
    /\ UNCHANGED detectCalled
    /\ SegFrame

\* a loop whose failure path skips the removal of the working directory
LoopStepFailsKeepsDir ==
    /\ spc = "loop"
    /\ currentStart < totalDuration
    /\ spc' = "thrown"
    /\ UNCHANGED <<totalDuration, maxChunkDurationSec, silenceRanges,
                   currentStart, chunkIndex, segChunks, tempDir>>
    /\ UNCHANGED detectCalled
    /\ SegFrame

\* extractSegment or readFile rejects inside the loop; finally rm
LoopStepFails ==
    /\ spc = "loop"
    /\ currentStart < totalDuration
    /\ tempDir' = FALSE
    /\ spc' = "thrown"
    /\ UNCHANGED <<totalDuration, maxChunkDurationSec, silenceRanges,
                   currentStart, chunkIndex, segChunks>>
    /\ UNCHANGED detectCalled
    /\ SegFrame

\* the while test fails: return chunks; finally rm
SplitLoopExit ==
    /\ spc = "loop"
    /\ currentStart >= totalDuration
    /\ tempDir' = FALSE
    /\ spc' = "returned"
    /\ UNCHANGED <<totalDuration, maxChunkDurationSec, silenceRanges,
                   currentStart, chunkIndex, segChunks>>
    /\ UNCHANGED detectCalled
    /\ SegFrame


-----------------------------------------------------------------------------
(* ASRTranscriber.transcribe: one run.                                     *)
(*   chunks          what splitAudio returned                              *)
(*   task[i]         none | queued (in the limiter) | inflight (limiter)   *)
(*                   | direct (called outside the limiter) | done | failed *)
(*   results[i]      the result map, Undefined = no entry                  *)
(*   pc              start | serial | serialCall | slidingFirst | awaitAll *)
(*                   | returned | thrown                                   *)

MaxChunks == 3            \* most chunks of a run explored
MaxConcurrency == 3       \* largest concurrency limit explored
contextMaxChars == 2      \* config.contextMaxChars explored

ContextModes == {"none", "sliding", "full_serial"}

\* text.trim(): " " is the whitespace token
RECURSIVE TrimLeft(_)
TrimLeft(t) == IF t # <<>> /\ Head(t) = " " THEN TrimLeft(Tail(t)) ELSE t
RECURSIVE TrimRight(_)
TrimRight(t) ==
    IF t # <<>> /\ t[Len(t)] = " " THEN TrimRight(SubSeq(t, 1, Len(t) - 1)) ELSE t
Trim(t) == TrimRight(TrimLeft(t))

\* HALLUCINATION_PATTERNS, of which /^No (speech|audio|sound|voice)/i is modelled
isHallucination(text) ==
    LET trimmed == Trim(text)
    IN  /\ trimmed # <<>>
        /\ Len(trimmed) >= 2
        /\ trimmed[1] \in {"No", "no", "NO"}
        /\ trimmed[2] \in {"speech", "audio", "sound", "voice"}

Sanitize(text) == IF isHallucination(text) THEN EmptyText ELSE text

\* text.slice(-contextMaxChars)
truncateContext(text) ==
    IF Len(text) <= contextMaxChars THEN text
    ELSE SubSeq(text, Len(text) - contextMaxChars + 1, Len(text))

\* what one transcribeChunk call can return, and what it can throw
CallOutcomes == { Normalize(variant, b) : b \in Bodies }
TerminalErrors ==
    { fromResponse(401), maxRetriesExceeded(maxRetries + 1, timeout(requestTimeout)) }

N == Len(chunks)
Idx == 1..N
\* a filter that keeps the silent chunks too
AllChunks == Idx

\* chunks.filter((c) => !c.isSilent)
NonSilent == { i \in Idx : ~chunks[i].isSilent }
\* a slice that keeps the first non-silent chunk
RemainingAll(first) == NonSilent

\* nonSilentChunks.slice(1)
Remaining(first) == { i \in NonSilent : i # first }

InFlight == { i \in Idx : task[i] \in {"inflight", "direct"} }
ActiveCount(t) == Cardinality({ i \in DOMAIN t : t[i] = "inflight" })

\* the positions of S in increasing order
RECURSIVE Ordered(_)
Ordered(S) ==
    IF S = {} THEN <<>>
    ELSE LET m == CHOOSE x \in S : \A y \in S : x <= y
         IN  <<m>> \o Ordered(S \ {m})

\* a limiter that starts whatever is queued
RECURSIVE AdmitUnlimited(_, _)
AdmitUnlimited(q, t) ==
    IF q # <<>>
    THEN AdmitUnlimited(Tail(q), [t EXCEPT ![Head(q)] = "inflight"])
    ELSE [queue |-> q, task |-> t]

\* a limiter that starts a task only when no other task runs
AdmitOne(q, t) ==
    IF q # <<>> /\ ActiveCount(t) = 0
    THEN [queue |-> Tail(q), task |-> [t EXCEPT ![Head(q)] = "inflight"]]
    ELSE [queue |-> q, task |-> t]

\* a limiter in which a task that rejected never gives its slot back
RECURSIVE AdmitHoldsFailedSlots(_, _)
AdmitHoldsFailedSlots(q, t) ==
    IF q # <<>>
       /\ ActiveCount(t) + Cardinality({i \in DOMAIN t : t[i] = "failed"}) < concurrency
    THEN AdmitHoldsFailedSlots(Tail(q), [t EXCEPT ![Head(q)] = "inflight"])
    ELSE [queue |-> q, task |-> t]

\* pLimit(concurrency): while a slot is free, the head of the queue starts
RECURSIVE Admit(_, _)
Admit(q, t) ==
    IF q # <<>> /\ ActiveCount(t) < concurrency
    THEN Admit(Tail(q), [t EXCEPT ![Head(q)] = "inflight"])
    ELSE [queue |-> q, task |-> t]

\* this.transcribeChunk(chunk, ...) is entered by every task that t2 starts
Called(t2) ==
    [i \in Idx |-> IF t2[i] \in {"inflight", "direct"} /\ task[i] \notin {"inflight", "direct"}
                   THEN calls[i] + 1 ELSE calls[i]]

\* the for-of loop that pre-fills the silent chunks
Prefill(m) == [i \in Idx |-> IF chunks[i].isSilent THEN EmptyText ELSE m[i]]
PrefillWrites ==
    [i \in Idx |-> IF chunks[i].isSilent THEN Append(writes[i], "prefill") ELSE writes[i]]
PrefillSegments(m) == [i \in Idx |-> IF chunks[i].isSilent THEN <<>> ELSE m[i]]

\* S.map(chunk => limit(...)) with context ctx: every task is queued in index
\* order, and the limiter starts the first ones
Dispatch(S, ctx) ==
    LET queued == [i \in Idx |-> IF i \in S THEN "queued" ELSE task[i]]
        adm == Admit(queue \o Ordered(S), queued)
    IN  /\ queue' = adm.queue
        /\ task' = adm.task
        /\ calls' = Called(adm.task)
        /\ taskCtx' = [i \in Idx |-> IF i \in S THEN ctx ELSE taskCtx[i]]

Stats(n, skipped, mode, conc) ==
    [chunks |-> n, chunksTranscribed |-> n - skipped,
     chunksSkippedSilent |-> skipped, mode |-> mode, concurrency |-> conc]

RunResult(text, segments, stats) ==
    [text |-> text, segments |-> segments, stats |-> stats]

NoResult == RunResult(Undefined, <<>>, Stats(0, 0, "none", 0))

InitRun ==
    /\ pc = "start"
    /\ queue = <<>>
    /\ task = [i \in Idx |-> "none"]
    /\ taskCtx = [i \in Idx |-> Undefined]
    /\ taskErr = [i \in Idx |-> NoError]
    /\ results = [i \in Idx |-> Undefined]
    /\ segmentResults = [i \in Idx |-> <<>>]
    /\ context = EmptyText
    /\ cursor = 1
    /\ runResult = NoResult
    /\ runError = NoError
    /\ calls = [i \in Idx |-> 0]
    /\ outOfOrder = FALSE
    /\ served = [i \in Idx |-> NoBody]
    /\ writes = [i \in Idx |-> <<>>]

IdleRun ==
    /\ chunks = <<>>
    /\ contextMode = "sliding"
    /\ concurrency = 1
    /\ InitRun


\* results.get(chunk.index) ?? ""
Get(m, i) == IF m[i] = Undefined THEN EmptyText ELSE m[i]

\* a join that walks the chunks from the last to the first
RECURSIVE JoinReversed(_, _)
JoinReversed(m, i) == IF i > N THEN <<>> ELSE JoinReversed(m, i + 1) \o Get(m, i)

\* chunks.map(chunk => results.get(chunk.index) ?? "").join("")
RECURSIVE JoinFrom(_, _)
JoinFrom(m, i) == IF i > N THEN <<>> ELSE Get(m, i) \o JoinFrom(m, i + 1)

\* chat generation: one segment per chunk, carrying the chunk's text
ChatSegments(m) ==
    [i \in Idx |-> Seg(chunks[i].startMs \div MsPerSec,
                       chunks[i].endMs \div MsPerSec, Get(m, i))]

\* transcriptions generation: the chunk's own segments, else one synthesised
\* segment when the text is non-empty, else nothing
RECURSIVE MergeFrom(_, _, _)
MergeFrom(m, segs, i) ==
    IF i > N THEN <<>>
    ELSE (IF Len(segs[i]) > 0 THEN segs[i]
          ELSE IF Get(m, i) # EmptyText
               THEN <<Seg(chunks[i].startMs \div MsPerSec,
                          chunks[i].endMs \div MsPerSec, Get(m, i))>>
               ELSE <<>>)
         \o MergeFrom(m, segs, i + 1)

\* result.segments.map(seg => offset by chunk.startMs / 1000)
OffsetSegments(segs, chunk) ==
    [k \in 1..Len(segs) |->
        Seg(segs[k].start + chunk.startMs \div MsPerSec,
            segs[k].end + chunk.startMs \div MsPerSec, segs[k].text)]

\* a count of the chunks that were sent instead of the silent ones
SkippedCalled == Cardinality(NonSilent)

\* chunks.length - nonSilentChunks.length
Skipped == N - Cardinality(NonSilent)

Assembled ==
    RunResult(JoinFrom(results, 1),
              IF variant = "chat" THEN ChatSegments(results)
              ELSE MergeFrom(results, segmentResults, 1),
              Stats(N, Skipped, contextMode, concurrency))

Parallel == variant = "transcriptions" \/ contextMode = "none"

\* chunks.length === 0: the early return
ReturnEmpty ==
    /\ pc = "start"
    /\ N = 0
    /\ pc' = "returned"
    /\ runResult' = RunResult(EmptyText, <<>>, Stats(0, 0, contextMode, 0))
    /\ UNCHANGED <<chunks, contextMode, concurrency, queue, task, taskCtx, taskErr,
                   results, segmentResults, context, cursor, runError>>
    /\ UNCHANGED <<calls, outOfOrder>>
    /\ UNCHANGED served
    /\ UNCHANGED writes
    /\ RunFrame

\* pre-fill, then Promise.all over every non-silent chunk with empty context
StartParallel ==
    /\ pc = "start"
    /\ N > 0
    /\ Parallel
    /\ results' = Prefill(results)
    /\ segmentResults' = PrefillSegments(segmentResults)
    /\ Dispatch(NonSilent, EmptyText)
    /\ pc' = "awaitAll"
    /\ UNCHANGED <<chunks, contextMode, concurrency, taskErr, context, cursor,
                   runResult, runError>>
    /\ UNCHANGED outOfOrder
    /\ UNCHANGED served
    /\ writes' = PrefillWrites
    /\ RunFrame

\* pre-fill, then context = "" and the for-of loop of full_serial
StartSerial ==
    /\ pc = "start"
    /\ N > 0
    /\ ~Parallel
    /\ contextMode = "full_serial"
    /\ results' = Prefill(results)
    /\ context' = EmptyText
    /\ cursor' = 1
    /\ pc' = "serial"
    /\ UNCHANGED <<chunks, contextMode, concurrency, queue, task, taskCtx, taskErr,
                   segmentResults, runResult, runError>>
    /\ UNCHANGED <<calls, outOfOrder>>
    /\ UNCHANGED served
    /\ writes' = PrefillWrites
    /\ RunFrame

\* full_serial: if (chunk.isSilent) continue
SerialSkip ==
    /\ pc = "serial"
    /\ cursor <= N
    /\ chunks[cursor].isSilent
    /\ cursor' = cursor + 1
    /\ UNCHANGED <<chunks, contextMode, concurrency, pc, queue, task, taskCtx,
                   taskErr, results, segmentResults, context, runResult, runError>>
    /\ UNCHANGED <<calls, outOfOrder>>
    /\ UNCHANGED served
    /\ UNCHANGED writes
    /\ RunFrame

\* full_serial: await this.transcribeChunk(chunk, context)
SerialCall ==
    /\ pc = "serial"
    /\ cursor <= N
    /\ ~chunks[cursor].isSilent
    /\ task' = [task EXCEPT ![cursor] = "direct"]
    /\ taskCtx' = [taskCtx EXCEPT ![cursor] = context]
    /\ pc' = "serialCall"
    /\ UNCHANGED <<chunks, contextMode, concurrency, queue, taskErr, results,
                   segmentResults, context, cursor, runResult, runError>>
    /\ calls' = [calls EXCEPT ![cursor] = @ + 1]
    /\ UNCHANGED outOfOrder
    /\ UNCHANGED served
    /\ UNCHANGED writes
    /\ RunFrame

\* full_serial: the call returns; sanitise, record, extend the context
SerialReturns(body) ==
    /\ pc = "serialCall"
    /\ LET text == Sanitize(Normalize(variant, body).text)
       IN  /\ results' = [results EXCEPT ![cursor] = text]
           /\ context' = IF text # EmptyText
                         THEN truncateContext(context \o text) ELSE context
    /\ task' = [task EXCEPT ![cursor] = "done"]
    /\ cursor' = cursor + 1
    /\ pc' = "serial"
    /\ UNCHANGED <<chunks, contextMode, concurrency, queue, taskCtx, taskErr,
                   segmentResults, runResult, runError>>
    /\ UNCHANGED <<calls, outOfOrder>>
    /\ served' = [served EXCEPT ![cursor] = body]
    /\ writes' = [writes EXCEPT ![cursor] = Append(@, "serial")]
    /\ RunFrame

\* a call made outside the limiter throws: transcribe rejects with the error
DirectThrows(err) ==
    /\ pc \in {"serialCall", "slidingFirst"}
    /\ \E i \in Idx :
         /\ task[i] = "direct"
         /\ task' = [task EXCEPT ![i] = "failed"]
         /\ taskErr' = [taskErr EXCEPT ![i] = err]
    /\ pc' = "thrown"
    /\ runError' = err
    /\ UNCHANGED <<chunks, contextMode, concurrency, queue, taskCtx, results,
                   segmentResults, context, cursor, runResult>>
    /\ UNCHANGED <<calls, outOfOrder>>
    /\ UNCHANGED served
    /\ UNCHANGED writes
    /\ RunFrame

\* pre-fill, then sliding: the first non-silent chunk is called with ""
StartSliding ==
    /\ pc = "start"
    /\ N > 0
    /\ ~Parallel
    /\ contextMode = "sliding"
    /\ results' = Prefill(results)
    /\ IF NonSilent = {}
       THEN /\ pc' = "awaitAll"
            /\ UNCHANGED <<task, taskCtx, cursor, calls>>
       ELSE LET first == Ordered(NonSilent)[1]
            IN  /\ task' = [task EXCEPT ![first] = "direct"]
                /\ taskCtx' = [taskCtx EXCEPT ![first] = EmptyText]
                /\ calls' = [calls EXCEPT ![first] = @ + 1]
                /\ cursor' = first
                /\ pc' = "slidingFirst"
    /\ UNCHANGED <<chunks, contextMode, concurrency, queue, taskErr,
                   segmentResults, context, runResult, runError>>
    /\ UNCHANGED outOfOrder
    /\ UNCHANGED served
    /\ writes' = PrefillWrites
    /\ RunFrame

\* sliding: the first call returns; its text seeds the context of the rest,
\* which are handed to the limiter
SlidingFirstReturns(body) ==
    /\ pc = "slidingFirst"
    /\ LET firstText == Sanitize(Normalize(variant, body).text)
           ctx == IF firstText # EmptyText THEN truncateContext(firstText)
                  ELSE EmptyText
           done == [task EXCEPT ![cursor] = "done"]
           queued == [i \in Idx |-> IF i \in Remaining(cursor) THEN "queued"
                                    ELSE done[i]]
           adm == Admit(Ordered(Remaining(cursor)), queued)
       IN  /\ results' = [results EXCEPT ![cursor] = firstText]
           /\ context' = ctx
           /\ queue' = adm.queue
           /\ task' = adm.task
           /\ calls' = Called(adm.task)
           /\ taskCtx' = [i \in Idx |-> IF i \in Remaining(cursor) THEN ctx
                                        ELSE taskCtx[i]]
    /\ pc' = "awaitAll"
    /\ UNCHANGED <<chunks, contextMode, concurrency, taskErr, segmentResults,
                   cursor, runResult, runError>>
    /\ UNCHANGED outOfOrder
    /\ served' = [served EXCEPT ![cursor] = body]
    /\ writes' = [writes EXCEPT ![cursor] = Append(@, "first")]
    /\ RunFrame

\* a limited task's call returns: record the outcome; the limiter starts the
\* next queued task
TaskReturns(i, body) ==
    /\ task[i] = "inflight"
    /\ LET out == Normalize(variant, body)
       IN  IF variant = "chat"
           THEN /\ results' = [results EXCEPT ![i] = Sanitize(out.text)]
                /\ UNCHANGED segmentResults
           ELSE /\ results' = [results EXCEPT ![i] = out.text]
                /\ segmentResults' =
                     [segmentResults EXCEPT ![i] = OffsetSegments(out.segments, chunks[i])]
    /\ LET adm == Admit(queue, [task EXCEPT ![i] = "done"])
       IN  /\ queue' = adm.queue
           /\ task' = adm.task
           /\ calls' = Called(adm.task)
    /\ UNCHANGED <<chunks, contextMode, concurrency, pc, taskCtx, taskErr, context,
                   cursor, runResult, runError>>
    /\ outOfOrder' = (outOfOrder \/ \E j \in NonSilent : j < i /\ task[j] # "done")
    /\ served' = [served EXCEPT ![i] = body]
    /\ writes' = [writes EXCEPT ![i] = Append(@, "task")]
    /\ RunFrame

\* a limited task that records "" for a call that threw
TaskSwallows(i, err) ==
    /\ task[i] = "inflight"
    /\ taskErr' = [taskErr EXCEPT ![i] = err]
    /\ results' = [results EXCEPT ![i] = EmptyText]
    /\ LET adm == Admit(queue, [task EXCEPT ![i] = "failed"])
       IN  /\ queue' = adm.queue
           /\ task' = adm.task
           /\ calls' = Called(adm.task)
    /\ UNCHANGED <<chunks, contextMode, concurrency, pc, taskCtx, segmentResults,
                   context, cursor, runResult, runError>>
    /\ UNCHANGED outOfOrder
    /\ UNCHANGED served
    /\ writes' = [writes EXCEPT ![i] = Append(@, "task")]
    /\ RunFrame

\* a rejection that cancels the other tasks: queued ones are dropped and the
\* calls in flight are abandoned
TaskThrowsCancels(i, err) ==
    /\ task[i] = "inflight"
    /\ taskErr' = [taskErr EXCEPT ![i] = err]
    /\ queue' = <<>>
    /\ task' = [j \in Idx |-> IF j = i \/ task[j] \in {"queued", "inflight"}
                               THEN "failed" ELSE task[j]]
    /\ UNCHANGED calls
    /\ IF pc = "awaitAll"
       THEN /\ pc' = "thrown"
            /\ runError' = err
       ELSE UNCHANGED <<pc, runError>>
    /\ UNCHANGED <<chunks, contextMode, concurrency, taskCtx, results,
                   segmentResults, context, cursor, runResult>>
    /\ UNCHANGED outOfOrder
    /\ UNCHANGED served
    /\ UNCHANGED writes
    /\ RunFrame

\* a limited task's call throws: the task rejects, the limiter starts the next
\* queued task, and Promise.all rejects with the first rejection
TaskThrows(i, err) ==
    /\ task[i] = "inflight"
    /\ taskErr' = [taskErr EXCEPT ![i] = err]
    /\ LET adm == Admit(queue, [task EXCEPT ![i] = "failed"])
       IN  /\ queue' = adm.queue
           /\ task' = adm.task
           /\ calls' = Called(adm.task)
    /\ IF pc = "awaitAll"
       THEN /\ pc' = "thrown"
            /\ runError' = err
       ELSE UNCHANGED <<pc, runError>>
    /\ UNCHANGED <<chunks, contextMode, concurrency, taskCtx, results,
                   segmentResults, context, cursor, runResult>>
    /\ UNCHANGED outOfOrder
    /\ UNCHANGED served
    /\ UNCHANGED writes
    /\ RunFrame

\* an assembly that does not wait for the limited tasks
AssembleEarly ==
    /\ \/ pc = "awaitAll"
       \/ pc = "serial" /\ cursor > N
    /\ pc' = "returned"
    /\ runResult' = Assembled
    /\ UNCHANGED <<chunks, contextMode, concurrency, queue, task, taskCtx, taskErr,
                   results, segmentResults, context, cursor, runError>>
    /\ UNCHANGED <<calls, outOfOrder>>
    /\ UNCHANGED served
    /\ UNCHANGED writes
    /\ RunFrame

\* the awaited work is over: build segments, fullText and stats, and return
Assemble ==
    /\ \/ pc = "awaitAll" /\ \A i \in Idx : task[i] \in {"none", "done"}
       \/ pc = "serial" /\ cursor > N
    /\ pc' = "returned"
    /\ runResult' = Assembled
    /\ UNCHANGED <<chunks, contextMode, concurrency, queue, task, taskCtx, taskErr,
                   results, segmentResults, context, cursor, runError>>
    /\ UNCHANGED <<calls, outOfOrder>>
    /\ UNCHANGED served
    /\ UNCHANGED writes
    /\ RunFrame

-----------------------------------------------------------------------------
(* transcribeChunk calls running side by side: each call runs the retry    *)
(* loop of transcribeChunk on locals of its own.  `controller` and          *)
(* `timeoutId` are consts of one loop iteration, so every attempt of every  *)
(* call has its own timer (timerArmed, elapsed).  Time is shared: a second  *)
(* passes for every pending fetch at once.                                  *)

Siblings == 1..MaxSiblings

Sibling(p, a, e, armed, err) ==
    [cpc |-> p, attempt |-> a, elapsed |-> e, timerArmed |-> armed, err |-> err]

InitSiblings == sib = [k \in Siblings |-> Sibling("loop", 0, 0, FALSE, NoError)]
IdleSiblings == sib = <<>>

\* the catch block of call k
SibCatch(c, error) ==
    IF ~error.retryable
    THEN Sibling("thrown", c.attempt, 0, FALSE, error)
    ELSE IF c.attempt = maxRetries
    THEN Sibling("thrown", c.attempt, 0, FALSE, maxRetriesExceeded(maxRetries + 1, error))
    ELSE Sibling("backoff", c.attempt, 0, FALSE, error)

\* an abort that reaches the fetch of every call
SibTimeoutAbortsAll(k) ==
    /\ sib[k].cpc = "fetching"
    /\ sib[k].timerArmed
    /\ sib[k].elapsed * MsPerSec >= requestTimeout * MsPerSec
    /\ sib' = [j \in Siblings |->
                  IF sib[j].cpc = "fetching"
                  THEN SibCatch(sib[j], timeout(requestTimeout)) ELSE sib[j]]
    /\ SibFrame

\* call k: new AbortController, setTimeout(abort), fetch()
SibStartAttempt(k) ==
    /\ sib[k].cpc = "loop"
    /\ sib[k].attempt <= maxRetries
    /\ sib' = [sib EXCEPT ![k] = Sibling("fetching", @.attempt, 0, TRUE, NoError)]
    /\ SibFrame

\* one second passes for every attempt awaiting fetch(); an armed timer lets
\* no second pass beyond requestTimeout
SibTick ==
    /\ \E k \in Siblings : sib[k].cpc = "fetching"
    /\ \A k \in Siblings :
          sib[k].cpc = "fetching" /\ sib[k].timerArmed =>
              sib[k].elapsed < requestTimeout
    /\ sib' = [k \in Siblings |->
                  IF sib[k].cpc = "fetching"
                  THEN [sib[k] EXCEPT !.elapsed = @ + 1] ELSE sib[k]]
    /\ SibFrame

\* the timer of call k's attempt fires: controller.abort(), fetch rejects with
\* AbortError
SibTimeoutFires(k) ==
    /\ sib[k].cpc = "fetching"
    /\ sib[k].timerArmed
    /\ sib[k].elapsed * MsPerSec >= requestTimeout * MsPerSec
    /\ sib' = [sib EXCEPT ![k] = SibCatch(@, timeout(requestTimeout))]
    /\ SibFrame

\* the fetch of call k rejects (network failure)
SibFetchRejects(k) ==
    /\ sib[k].cpc = "fetching"
    /\ sib' = [sib EXCEPT ![k] = SibCatch(@, networkError)]
    /\ SibFrame

\* the fetch of call k resolves: clearTimeout, then the !response.ok test
SibResponseArrives(k, status) ==
    /\ sib[k].cpc = "fetching"
    /\ sib' = [sib EXCEPT ![k] =
                  IF Ok(status) THEN Sibling("body", @.attempt, 0, FALSE, @.err)
                  ELSE SibCatch(@, fromResponse(status))]
    /\ SibFrame

\* response.json() of call k resolves: the call returns
SibBodyDecoded(k) ==
    /\ sib[k].cpc = "body"
    /\ sib' = [sib EXCEPT ![k] = Sibling("returned", @.attempt, 0, FALSE, @.err)]
    /\ SibFrame

\* the backoff sleep of call k is over: attempt++
SibBackoffElapses(k) ==
    /\ sib[k].cpc = "backoff"
    /\ sib' = [sib EXCEPT ![k] = Sibling("loop", @.attempt + 1, 0, FALSE, @.err)]
    /\ SibFrame

-----------------------------------------------------------------------------
(* index.ts: the CallToolRequestSchema handler, with the steps of           *)
(* transcribe that its transcribe_audio branch awaits.  The media steps and *)
(* the transcription phase are followed one await at a time; what each of   *)
(* them computes is the subject of the sections above.                      *)

DefaultConcurrency == 5   \* (args?.max_concurrency as number) || 5

\* values of the max_concurrency argument
ArgConcurrencies == {-1, 0, 1, 5, 20, 21, 50}

\* the arguments of a request and the file they name: whether the path
\* exists, whether the file is longer than maxChunkDuration, how many chunks
\* it splits into and how many of them are not silent
Request(name, present, value, exists, long, target, audible) ==
    [name |-> name,
     hasMaxConcurrency |-> present, max_concurrency |-> value, exists |-> exists,
     long |-> long, target |-> target, audible |-> audible]

\* the two tools the server lists, and a name it does not know
ToolNames == {"transcribe_audio", "get_audio_info", "list_models"}

Requests ==
    { Request(name, present, value, exists, long, target, audible) :
        name \in ToolNames,
        present \in BOOLEAN, value \in ArgConcurrencies, exists \in BOOLEAN,
        long \in BOOLEAN, target \in 1..MaxToolChunks, audible \in 0..MaxToolChunks }

\* a file within maxChunkDuration is one chunk, a longer one at least two
Feasible(req) ==
    /\ req.audible <= req.target
    /\ req.long <=> req.target > 1
    /\ ~req.hasMaxConcurrency => req.max_concurrency = 0
    \* only transcribe_audio reads max_concurrency and splits the file
    /\ req.name # "transcribe_audio" =>
          ~req.hasMaxConcurrency /\ req.target = 1 /\ req.audible = 0

NoRequest == Request("transcribe_audio", FALSE, 0, FALSE, FALSE, 1, 0)

Op(name, ok) == [op |-> name, ok |-> ok]

\* the content the handler answers with
Response(kind, code, n) == [kind |-> kind, code |-> code, chunks |-> n]
NoResponse == Response("none", "", 0)
ErrorResponse(code) == Response("error", code, 0)
ResultResponse(n) == Response("result", "", n)
\* `Error reading audio: ...`, the audio info text, `Unknown tool: ...`
ReadErrorResponse(code) == Response("readError", code, 0)
InfoResponse == Response("info", "", 0)
UnknownToolResponse == Response("unknown", "", 0)

\* the codes of the ASRError subclasses
ASRErrorCodes == {"AUDIO_FILE_ERROR", "FFMPEG_ERROR", "API_ERROR", "CONFIG_ERROR"}

\* the code an error's text starts with; an error is named by its code, or by
\* its class when it is not an ASRError
NoCode == ""
formatError(error) == IF error \in ASRErrorCodes THEN error ELSE NoCode

NoLimit == 0

\* getConfig: !apiKey
KeyAbsent == apiKey \in {"unset", "empty"}

InitTool ==
    /\ transcriber = FALSE
    /\ tpc = "idle"
    /\ request = NoRequest
    /\ maxConcurrency = DefaultConcurrency
    /\ ops = <<>>
    /\ materialized = 0
    /\ limit = NoLimit
    /\ sent = 0
    /\ response = NoResponse
    /\ handled = 0

IdleTool ==
    /\ apiKey = "set"
    /\ InitTool

\* a handler step that ends the request with an error
Fails(code) ==
    /\ response' = ErrorResponse(formatError(code))
    /\ tpc' = "responded"

\* a tool call arrives: read the arguments
ToolCall(req) ==
    /\ tpc \in {"idle", "responded"}
    /\ handled < MaxToolCalls
    /\ Feasible(req)
    /\ handled' = handled + 1
    /\ request' = req
    /\ maxConcurrency' = IF req.hasMaxConcurrency /\ req.max_concurrency # 0
                         THEN req.max_concurrency ELSE DefaultConcurrency
    /\ ops' = <<>>
    /\ materialized' = 0
    /\ limit' = NoLimit
    /\ sent' = 0
    /\ response' = NoResponse
    /\ tpc' = "received"
    /\ UNCHANGED transcriber
    /\ ToolFrame

\* !existsSync(audioPath): answer AudioFileError
FileMissing ==
    /\ tpc = "received"
    /\ request.name \in {"transcribe_audio", "get_audio_info"}
    /\ ~request.exists
    /\ Fails("AUDIO_FILE_ERROR")
    /\ UNCHANGED <<transcriber, request, maxConcurrency, ops, materialized, limit,
                   sent, handled>>
    /\ ToolFrame

\* getTranscriber: new ASRTranscriber() calls getConfig, which throws
GetTranscriberThrows ==
    /\ tpc = "received"
    /\ request.name = "transcribe_audio"
    /\ request.exists
    /\ ~transcriber
    /\ KeyAbsent
    /\ Fails("CONFIG_ERROR")
    /\ UNCHANGED <<transcriber, request, maxConcurrency, ops, materialized, limit,
                   sent, handled>>
    /\ ToolFrame

\* getTranscriber: the singleton exists or is constructed; transcribe is called
GetTranscriber ==
    /\ tpc = "received"
    /\ request.name = "transcribe_audio"
    /\ request.exists
    /\ transcriber \/ ~KeyAbsent
    /\ transcriber' = TRUE
    /\ tpc' = "info"
    /\ UNCHANGED <<request, maxConcurrency, ops, materialized, limit, sent,
                   response, handled>>
    /\ ToolFrame

\* transcribe: await getAudioInfo(audioPath)
AudioInfoResolves ==
    /\ tpc = "info"
    /\ ops' = Append(ops, Op("probe", TRUE))
    /\ tpc' = "splitProbe"
    /\ UNCHANGED <<transcriber, request, maxConcurrency, materialized, limit, sent,
                   response, handled>>
    /\ ToolFrame

AudioInfoFails ==
    /\ tpc = "info"
    /\ ops' = Append(ops, Op("probe", FALSE))
    /\ Fails("FFMPEG_ERROR")
    /\ UNCHANGED <<transcriber, request, maxConcurrency, materialized, limit, sent,
                   handled>>
    /\ ToolFrame

\* splitAudio: await runFFprobe(filePath), then the duration test
SplitProbeResolves ==
    /\ tpc = "splitProbe"
    /\ ops' = Append(ops, Op("probe", TRUE))
    /\ tpc' = IF request.long THEN "detect" ELSE "extract"
    /\ UNCHANGED <<transcriber, request, maxConcurrency, materialized, limit, sent,
                   response, handled>>
    /\ ToolFrame

SplitProbeFails ==
    /\ tpc = "splitProbe"
    /\ ops' = Append(ops, Op("probe", FALSE))
    /\ Fails("FFMPEG_ERROR")
    /\ UNCHANGED <<transcriber, request, maxConcurrency, materialized, limit, sent,
                   handled>>
    /\ ToolFrame

\* splitAudio: await detectSilenceRanges(filePath, silenceThreshDb)
DetectResolves ==
    /\ tpc = "detect"
    /\ ops' = Append(ops, Op("detect", TRUE))
    /\ tpc' = "extract"
    /\ UNCHANGED <<transcriber, request, maxConcurrency, materialized, limit, sent,
                   response, handled>>
    /\ ToolFrame

DetectRejects ==
    /\ tpc = "detect"
    /\ ops' = Append(ops, Op("detect", FALSE))
    /\ Fails("FFMPEG_ERROR")
    /\ UNCHANGED <<transcriber, request, maxConcurrency, materialized, limit, sent,
                   handled>>
    /\ ToolFrame

\* an extraction failure after which splitAudio returns the chunks it has
ExtractFailsKeepsChunks ==
    /\ tpc = "extract"
    /\ materialized < request.target
    /\ ops' = Append(ops, Op("extract", FALSE))
    /\ tpc' = "limiter"
    /\ UNCHANGED response
    /\ UNCHANGED <<transcriber, request, maxConcurrency, materialized, limit, sent,
                   handled>>
    /\ ToolFrame

\* splitAudio: await extractSegment(...); chunks.push(...)
ExtractResolves ==
    /\ tpc = "extract"
    /\ materialized < request.target
    /\ ops' = Append(ops, Op("extract", TRUE))
    /\ materialized' = materialized + 1
    /\ UNCHANGED <<transcriber, tpc, request, maxConcurrency, limit, sent, response,
                   handled>>
    /\ ToolFrame

\* extractSegment rejects: splitAudio throws out of its try block
ExtractFails ==
    /\ tpc = "extract"
    /\ materialized < request.target
    /\ ops' = Append(ops, Op("extract", FALSE))
    /\ Fails("FFMPEG_ERROR")
    /\ UNCHANGED <<transcriber, request, maxConcurrency, materialized, limit, sent,
                   handled>>
    /\ ToolFrame

\* splitAudio returns its chunks
SplitReturns ==
    /\ tpc = "extract"
    /\ materialized = request.target
    /\ tpc' = "limiter"
    /\ UNCHANGED <<transcriber, request, maxConcurrency, ops, materialized, limit,
                   sent, response, handled>>
    /\ ToolFrame

\* pLimit(concurrency) rejects a concurrency below 1 with a TypeError
LimiterThrows ==
    /\ tpc = "limiter"
    /\ maxConcurrency < 1
    /\ Fails("TypeError")
    /\ UNCHANGED <<transcriber, request, maxConcurrency, ops, materialized, limit,
                   sent, handled>>
    /\ ToolFrame

\* const concurrency = maxConcurrency ?? this.config.maxConcurrency;
\* const limit = pLimit(concurrency)
LimiterCreated ==
    /\ tpc = "limiter"
    /\ maxConcurrency >= 1
    /\ limit' = maxConcurrency
    /\ tpc' = "sending"
    /\ UNCHANGED <<transcriber, request, maxConcurrency, ops, materialized, sent,
                   response, handled>>
    /\ ToolFrame

\* a non-silent chunk is sent to the service
SendChunk ==
    /\ tpc = "sending"
    /\ sent < request.audible
    /\ sent' = sent + 1
    /\ UNCHANGED <<transcriber, tpc, request, maxConcurrency, ops, materialized,
                   limit, response, handled>>
    /\ ToolFrame

\* every call has returned: transcribe resolves, the handler formats the result
RunResolves ==
    /\ tpc = "sending"
    /\ sent = request.audible
    /\ response' = ResultResponse(materialized)
    /\ tpc' = "responded"
    /\ UNCHANGED <<transcriber, request, maxConcurrency, ops, materialized, limit,
                   sent, handled>>
    /\ ToolFrame

\* a call has failed terminally: transcribe rejects, the handler's catch answers
RunRejects ==
    /\ tpc = "sending"
    /\ sent > 0
    /\ Fails("API_ERROR")
    /\ UNCHANGED <<transcriber, request, maxConcurrency, ops, materialized, limit,
                   sent, handled>>
    /\ ToolFrame

\* get_audio_info: await getAudioInfo(audioPath) resolves; the info text
InfoProbeResolves ==
    /\ tpc = "received"
    /\ request.name = "get_audio_info"
    /\ request.exists
    /\ ops' = Append(ops, Op("probe", TRUE))
    /\ response' = InfoResponse
    /\ tpc' = "responded"
    /\ UNCHANGED <<transcriber, request, maxConcurrency, materialized, limit, sent,
                   handled>>
    /\ ToolFrame

\* get_audio_info: getAudioInfo rejects; the branch's catch answers
InfoProbeFails ==
    /\ tpc = "received"
    /\ request.name = "get_audio_info"
    /\ request.exists
    /\ ops' = Append(ops, Op("probe", FALSE))
    /\ response' = ReadErrorResponse(formatError("FFMPEG_ERROR"))
    /\ tpc' = "responded"
    /\ UNCHANGED <<transcriber, request, maxConcurrency, materialized, limit, sent,
                   handled>>
    /\ ToolFrame

\* neither name matches: `Unknown tool: ${name}`
UnknownTool ==
    /\ tpc = "received"
    /\ request.name \notin {"transcribe_audio", "get_audio_info"}
    /\ response' = UnknownToolResponse
    /\ tpc' = "responded"
    /\ UNCHANGED <<transcriber, request, maxConcurrency, ops, materialized, limit,
                   sent, handled>>
    /\ ToolFrame

-----------------------------------------------------------------------------
(* Specifications *)

Init ==
    /\ variant \in Variants
    /\ \E n \in 0..MaxChunks : \E silent \in [1..n -> BOOLEAN] :
         chunks = [i \in 1..n |-> AudioChunk(i - 1, i - 1, i, silent[i])]
    /\ contextMode \in ContextModes
    /\ concurrency \in 1..MaxConcurrency
    /\ InitRun
    /\ IdleCall
    /\ IdleSeg
    /\ IdleSiblings
    /\ IdleTool

Next ==
    \/ ReturnEmpty
    \/ StartParallel
    \/ StartSerial
    \/ SerialSkip
    \/ SerialCall
    \/ \E body \in Bodies : SerialReturns(body)
    \/ \E err \in TerminalErrors : DirectThrows(err)
    \/ StartSliding
    \/ \E body \in Bodies : SlidingFirstReturns(body)
    \/ \E i \in Idx, body \in Bodies : TaskReturns(i, body)
    \/ \E i \in Idx, err \in TerminalErrors : TaskThrows(i, err)
    \/ Assemble

Spec == Init /\ [][Next]_vars

\* every step of a run is the continuation of a settled promise (a call that
\* responded, failed or timed out; a limiter slot that was freed), which the
\* event loop runs
SpecFair == Spec /\ WF_vars(Next)

InitChunk ==
    /\ variant \in Variants
    /\ maxRetries \in (-1)..MaxRetriesBound
    /\ requestTimeout \in 1..MaxTimeout
    /\ InitCall
    /\ IdleRun
    /\ IdleSeg
    /\ IdleSiblings
    /\ IdleTool

NextChunk ==
    \/ StartAttempt
    \/ RetryLoopExit
    \/ TickRequest
    \/ TimeoutFires
    \/ FetchRejects
    \/ \E status \in Statuses : ResponseArrives(status)
    \/ \E body \in Bodies : BodyDecoded(body)
    \/ BodyRejects
    \/ TickBackoff
    \/ BackoffElapses

SpecChunk == InitChunk /\ [][NextChunk]_vars

InitSeg ==
    /\ totalDuration \in 0..MaxDuration
    /\ maxChunkDurationSec \in 1..MaxChunkDur
    /\ silenceRanges \in SilenceLists
    /\ InitSplit
    /\ variant = "chat"
    /\ IdleCall
    /\ IdleRun
    /\ IdleSiblings
    /\ IdleTool

NextSeg ==
    \/ ProbeResolves
    \/ ProbeFails
    \/ BeginSingle
    \/ \E silent \in BOOLEAN : ExtractSingle(silent)
    \/ ExtractSingleFails
    \/ BeginLoop
    \/ DetectFails
    \/ \E silent \in BOOLEAN : LoopStep(silent)
    \/ LoopStepFails
    \/ SplitLoopExit

SpecSeg == InitSeg /\ [][NextSeg]_vars

\* splitAudio is one async function: each step is the continuation of an
\* awaited promise, which the event loop runs once the promise has settled
SpecSegFair == SpecSeg /\ WF_vars(NextSeg)

SiblingStatuses == {200, 401, 500}

InitSib ==
    /\ variant \in Variants
    /\ maxRetries \in 0..MaxSiblingRetries
    /\ requestTimeout \in 1..MaxTimeout
    /\ InitCall
    /\ IdleRun
    /\ IdleSeg
    /\ InitSiblings
    /\ IdleTool

NextSib ==
    \/ \E k \in Siblings : SibStartAttempt(k)
    \/ SibTick
    \/ \E k \in Siblings : SibTimeoutFires(k)
    \/ \E k \in Siblings : SibFetchRejects(k)
    \/ \E k \in Siblings, status \in SiblingStatuses : SibResponseArrives(k, status)
    \/ \E k \in Siblings : SibBodyDecoded(k)
    \/ \E k \in Siblings : SibBackoffElapses(k)

SpecSib == InitSib /\ [][NextSib]_vars

InitToolSpec ==
    /\ apiKey \in {"unset", "empty", "set"}
    /\ variant = "transcriptions"
    /\ InitTool
    /\ IdleCall
    /\ IdleRun
    /\ IdleSeg
    /\ IdleSiblings

NextTool ==
    \/ \E req \in Requests : ToolCall(req)
    \/ FileMissing
    \/ GetTranscriberThrows
    \/ GetTranscriber
    \/ AudioInfoResolves
    \/ AudioInfoFails
    \/ SplitProbeResolves
    \/ SplitProbeFails
    \/ DetectResolves
    \/ DetectRejects
    \/ ExtractResolves
    \/ ExtractFails
    \/ SplitReturns
    \/ LimiterThrows
    \/ LimiterCreated
    \/ SendChunk
    \/ RunResolves
    \/ RunRejects
    \/ InfoProbeResolves
    \/ InfoProbeFails
    \/ UnknownTool

SpecTool == InitToolSpec /\ [][NextTool]_vars


-----------------------------------------------------------------------------
(* Claims about a transcribe run (Spec) *)

\* C1: in the none and sliding modes the number of transcribeChunk calls in
\* flight never exceeds the run's concurrency limit.
C1_InFlightBounded ==
    contextMode \in {"none", "sliding"} => Cardinality(InFlight) <= concurrency

\* C1 witness: the limiter is full and a task waits behind it, after another
\* task has already completed.
C1_Witness ==
    /\ contextMode \in {"none", "sliding"}
    /\ Cardinality(InFlight) = concurrency
    /\ queue # <<>>
    /\ \E i \in Idx : task[i] = "done" /\ ~chunks[i].isSilent

\* C2: once the call of a chunk has failed terminally the run has failed with
\* the error of a failed chunk, no result is returned, and the chunk has no
\* entry in the result map (no empty text stands in for it).
C2_FailureFailsRun ==
    \A i \in Idx :
        task[i] = "failed" =>
            /\ pc = "thrown"
            /\ runResult = NoResult
            /\ results[i] = Undefined
            /\ \E j \in Idx : task[j] = "failed" /\ runError = taskErr[j]

\* C2 witness: a chunk failed in the parallel phase while a sibling was in
\* flight, and the sibling has completed since.
C2_Witness ==
    /\ pc = "thrown"
    /\ \E i, j \in Idx :
         /\ task[i] = "failed"
         /\ task[j] = "done" /\ ~chunks[j].isSilent /\ j > i
         /\ taskCtx[j] # Undefined

-----------------------------------------------------------------------------
(* Claims about one transcribeChunk call (SpecChunk) *)

AllRetryable == \A k \in 1..Len(errs) : errs[k].retryable

\* C3: when every attempt fails with a retryable error, exactly maxRetries + 1
\* requests are made and the call fails with the non-retryable 'max retries
\* exceeded' error that reports maxRetries + 1 attempts and wraps the last
\* attempt's error.
C3_MaxRetriesExceeded ==
    /\ AllRetryable => requests <= maxRetries + 1
    /\ (cpc = "thrown" /\ AllRetryable) =>
          /\ requests = maxRetries + 1
          /\ Len(errs) = maxRetries + 1
          /\ callErr.kind = "maxRetriesExceeded"
          /\ callErr.retryable = FALSE
          /\ callErr.attempts = maxRetries + 1
          /\ callErr.cause = Core(errs[Len(errs)])

\* C3 witness: three retryable failures in a row, the last one different from
\* the first, and the call has thrown.
C3_Witness ==
    /\ cpc = "thrown"
    /\ AllRetryable
    /\ Len(errs) >= 3
    /\ errs[1] # errs[Len(errs)]

\* C4: a non-retryable failure ends the call at that attempt: it is the last
\* request, no backoff follows it, and the error thrown is that APIError itself
\* (its status code, retryable = false), not the wrapper, also on the last
\* allowed attempt.
C4_NonRetryableImmediate ==
    \A k \in 1..Len(errs) :
        ~errs[k].retryable =>
            /\ k = Len(errs)
            /\ cpc = "thrown"
            /\ requests = k
            /\ Len(delays) = k - 1
            /\ callErr = errs[k]
            /\ callErr.kind = "http"
            /\ callErr.statusCode = statusLog[k]
            /\ callErr.retryable = FALSE

\* C4 witness: a 401 on the last allowed attempt, after earlier retries.
C4_Witness ==
    /\ cpc = "thrown"
    /\ maxRetries >= 1
    /\ attempt = maxRetries
    /\ callErr.statusCode = 401

\* C5: the error built from a non-2xx status s is retryable iff s >= 500 or
\* s = 429, and carries s as its status code.
C5_RetryableStatuses ==
    \A k \in 1..Len(errs) :
        statusLog[k] # NoStatus =>
            /\ ~Ok(statusLog[k])
            /\ errs[k].statusCode = statusLog[k]
            /\ errs[k].retryable <=> (statusLog[k] >= 500 \/ statusLog[k] = 429)

\* C5 witness: a 429 and a 500 were answered and retried, then a 499 ended the
\* call.
C5_Witness ==
    /\ Len(errs) >= 3
    /\ {statusLog[k] : k \in 1..Len(errs)} = {429, 500, 499}
    /\ cpc = "thrown"

\* C6: the j-th delay of a call lasts 1000 * j ms and follows the retryable
\* failure of attempt j - 1, which was not the last attempt; there is one delay
\* per attempt already left behind and none else: none before the first attempt,
\* none after a success or after the final failure.
C6_LinearBackoff ==
    /\ \A j \in 1..Len(delays) : delays[j] = 1000 * j
    /\ Len(delays) = attempt
    /\ cpc = "backoff" =>
          /\ errs[Len(errs)].retryable
          /\ attempt < maxRetries
          /\ sleepLeftMs + sleptMs = 1000 * (attempt + 1)
    /\ cpc \in {"returned", "thrown"} =>
          Len(delays) = IF requests = 0 THEN 0 ELSE requests - 1

\* C6 witness: the third attempt is under way after delays of 1 s and 2 s.
C6_Witness ==
    /\ cpc = "fetching"
    /\ attempt = 2
    /\ delays = <<1000, 2000>>

\* C7: an attempt still under way (response not received, or body not decoded)
\* is never older than requestTimeout seconds.
C7_AttemptBounded ==
    cpc \in {"fetching", "body"} => elapsed * 1000 <= requestTimeout * 1000

-----------------------------------------------------------------------------
(* Claims about the segmentation of splitAudio (SpecSeg) *)

RangeStart(i) == segChunks[i].data.start
RangeEnd(i) == segChunks[i].data.start + segChunks[i].data.duration
Ranges == 1..Len(segChunks)

\* the midpoints m with currentStart < m <= idealEnd at the step that made range i
Candidates(i) ==
    { k \in 1..Len(silenceRanges) :
        /\ 2 * RangeStart(i) < silenceRanges[k].start + silenceRanges[k].end
        /\ silenceRanges[k].start + silenceRanges[k].end
             <= 2 * (RangeStart(i) + maxChunkDurationSec) }
MidOf(k) == (silenceRanges[k].start + silenceRanges[k].end) \div 2
Largest(S) == CHOOSE x \in S : \A y \in S : y <= x
Ascending == \A k \in 1..(Len(silenceRanges) - 1) : MidOf(k) <= MidOf(k + 1)

\* C8: the ranges returned are contiguous, the first starts at 0 and the last
\* ends exactly at the total duration.
C8_CoversExactly ==
    spc = "returned" =>
        /\ Len(segChunks) >= 1
        /\ RangeStart(1) = 0
        /\ \A i \in 1..(Len(segChunks) - 1) : RangeStart(i + 1) = RangeEnd(i)
        /\ RangeEnd(Len(segChunks)) = totalDuration

\* C9: no emitted range is longer than maxChunkDurationSec.
C9_RangeBounded ==
    \A i \in Ranges : RangeEnd(i) - RangeStart(i) <= maxChunkDurationSec

\* C9 witness: a run of several ranges, one cut at the cap and one cut earlier.
C9_Witness ==
    /\ spc = "returned"
    /\ \E i, j \in Ranges :
         /\ RangeEnd(i) - RangeStart(i) = maxChunkDurationSec
         /\ RangeEnd(j) - RangeStart(j) < maxChunkDurationSec
         /\ j < Len(segChunks)

\* C10 as stated: each range of the loop ends at the largest midpoint in
\* (currentStart, idealEnd] whatever the order of the list, else at
\* min(idealEnd, totalDuration).
C10_LargestAnyOrder ==
    totalDuration > maxChunkDurationSec =>
        \A i \in Ranges :
            IF Candidates(i) # {}
            THEN RangeEnd(i) = Largest({MidOf(k) : k \in Candidates(i)})
            ELSE RangeEnd(i) = Min(RangeStart(i) + maxChunkDurationSec, totalDuration)

\* C10 as amended: each range of the loop ends at the midpoint in
\* (currentStart, idealEnd] that comes last in the list, which is the largest
\* one when the list is in ascending order; with no such midpoint it ends at
\* min(idealEnd, totalDuration).
C10_LastInListOrder ==
    totalDuration > maxChunkDurationSec =>
        \A i \in Ranges :
            IF Candidates(i) # {}
            THEN /\ RangeEnd(i) = MidOf(Largest(Candidates(i)))
                 /\ Ascending => RangeEnd(i) = Largest({MidOf(k) : k \in Candidates(i)})
            ELSE RangeEnd(i) = Min(RangeStart(i) + maxChunkDurationSec, totalDuration)

\* C10 witness: an ascending list, a range with two different midpoints to
\* choose from that ends at the larger one, and a range with none.
C10_Witness ==
    /\ spc = "returned"
    /\ Ascending
    /\ \E i, j \in Ranges :
         /\ Cardinality({MidOf(k) : k \in Candidates(i)}) >= 2
         /\ RangeEnd(i) = Largest({MidOf(k) : k \in Candidates(i)})
         /\ Candidates(j) = {}


\* C11: when totalDuration <= maxChunkDurationSec, splitAudio returns exactly
\* one chunk, with index 0, startMs 0 and endMs round(totalDuration * 1000),
\* and never calls the silence detection; also for a duration of 0.
C11_SingleChunk ==
    totalDuration <= maxChunkDurationSec =>
        /\ ~detectCalled
        /\ spc = "returned" =>
              /\ Len(segChunks) = 1
              /\ segChunks[1].index = 0
              /\ segChunks[1].startMs = 0
              /\ segChunks[1].endMs = totalDuration * 1000
              /\ RangeStart(1) = 0 /\ RangeEnd(1) = totalDuration

\* C11 witness: a file of duration 0 has been split, with silence intervals
\* on offer.
C11_Witness ==
    /\ spc = "returned"
    /\ totalDuration = 0
    /\ Len(silenceRanges) > 0
    /\ Len(segChunks) = 1

\* C12: the chunks returned have indices 0..n-1 in list order, the first
\* starts at 0 ms, each ends where the next starts, and the last ends at
\* round(totalDuration * 1000).
C12_ChunkInvariant ==
    spc = "returned" =>
        /\ Len(segChunks) >= 1
        /\ \A i \in Ranges : segChunks[i].index = i - 1
        /\ segChunks[1].startMs = 0
        /\ \A i \in 1..(Len(segChunks) - 1) :
              segChunks[i].endMs = segChunks[i + 1].startMs
        /\ segChunks[Len(segChunks)].endMs = totalDuration * 1000


-----------------------------------------------------------------------------
(* Claims about the context modes and the assembly of a run (Spec) *)

FirstNonSilent == CHOOSE i \in NonSilent : \A j \in NonSilent : i <= j
SilentChunks == { i \in Idx : chunks[i].isSilent }

\* the sanitised recorded texts of positions 1..k, joined in index order
RECURSIVE EarlierText(_)
EarlierText(k) ==
    IF k = 0 THEN <<>> ELSE EarlierText(k - 1) \o Sanitize(Get(results, k))

\* the recorded texts of positions 1..k, joined in index order
RECURSIVE TextUpTo(_)
TextUpTo(k) == IF k = 0 THEN <<>> ELSE TextUpTo(k - 1) \o Get(results, k)

\* C13: in full_serial at most one transcribeChunk call is in flight, and a
\* chunk's call has started only if the call of every earlier non-silent
\* chunk has returned successfully (so calls go in increasing index order and
\* a failure stops the run before any later chunk is sent).
C13_SerialOneAtATime ==
    contextMode = "full_serial" =>
        /\ Cardinality(InFlight) <= 1
        /\ \A i \in Idx :
              calls[i] > 0 => \A j \in NonSilent : j < i => task[j] = "done"

\* C14: in full_serial the context a chunk is called with is the last
\* contextMaxChars characters of the index-order concatenation of the
\* sanitised non-empty texts of all earlier chunks; the first call gets "".
C14_SerialContext ==
    contextMode = "full_serial" =>
        \A i \in Idx :
            calls[i] > 0 => taskCtx[i] = truncateContext(EarlierText(i - 1))

\* C15: in sliding the first non-silent chunk is called with empty context,
\* no other call has started unless that call has completed, and while it is
\* in flight no other call is in flight.
C15_SlidingFirstAlone ==
    contextMode = "sliding" /\ NonSilent # {} =>
        /\ calls[FirstNonSilent] > 0 => taskCtx[FirstNonSilent] = EmptyText
        /\ \A i \in Idx \ {FirstNonSilent} :
              calls[i] > 0 => task[FirstNonSilent] = "done"
        /\ FirstNonSilent \in InFlight => InFlight = {FirstNonSilent}

\* C16: in sliding every non-silent chunk after the first is called with the
\* sanitised text of the first non-silent chunk cut to its last
\* contextMaxChars characters (empty when that text is empty or filtered),
\* whatever has completed since.
C16_SlidingSharedContext ==
    contextMode = "sliding" /\ NonSilent # {} =>
        \A i \in NonSilent \ {FirstNonSilent} :
            calls[i] > 0 /\ task[FirstNonSilent] = "done" =>
                taskCtx[i] = truncateContext(Sanitize(results[FirstNonSilent]))

\* C17: in none mode every non-silent chunk is submitted with empty context,
\* and a submitted chunk whose call has not started is waiting only because
\* every slot of the limiter is taken.
C17_NoneIndependent ==
    contextMode = "none" /\ pc # "start" =>
        /\ \A i \in NonSilent : task[i] # "none" /\ taskCtx[i] = EmptyText
        /\ \A i \in Idx : task[i] = "queued" => Cardinality(InFlight) = concurrency

\* C17 witness: in the none branch of the chat generation a chunk was called
\* with empty context while an earlier chunk was still in flight with no
\* result, and a third waits for a slot.
C17_Witness ==
    /\ contextMode = "none" /\ variant = "chat"
    /\ \E i, j, k \in Idx :
         /\ i < j
         /\ task[i] = "inflight" /\ results[i] = Undefined
         /\ calls[j] = 1 /\ taskCtx[j] = EmptyText
         /\ task[k] = "queued"

\* C18: no transcribeChunk call is ever made for a silent chunk, its recorded
\* text is "" once the run has pre-filled the results, and in a run that
\* returns every non-silent chunk has been called exactly once.
C18_SilentNeverSent ==
    /\ \A i \in SilentChunks :
          /\ calls[i] = 0 /\ task[i] = "none"
          /\ pc # "start" => results[i] = EmptyText
    /\ pc = "returned" => \A i \in Idx \ SilentChunks : calls[i] = 1

\* C18 witness: a run over silent and non-silent chunks has returned, with a
\* non-empty text recorded for a non-silent chunk.
C18_Witness ==
    /\ pc = "returned"
    /\ \E i, j \in Idx :
         /\ chunks[i].isSilent /\ i < j
         /\ ~chunks[j].isSilent /\ results[j] # EmptyText

\* C19: a returned run has stats.chunks = chunksTranscribed +
\* chunksSkippedSilent with chunksSkippedSilent the number of silent chunks;
\* when every chunk is silent no call is ever made, and the run returns ""
\* with chunksSkippedSilent = chunks.
C19_StatsAddUp ==
    /\ SilentChunks = Idx => \A i \in Idx : calls[i] = 0
    /\ pc = "returned" =>
          /\ runResult.stats.chunks =
                runResult.stats.chunksTranscribed + runResult.stats.chunksSkippedSilent
          /\ runResult.stats.chunksSkippedSilent = Cardinality(SilentChunks)
          /\ SilentChunks = Idx =>
                /\ runResult.text = EmptyText
                /\ runResult.stats.chunksSkippedSilent = runResult.stats.chunks

\* C19 witness: a run over several chunks, all of them silent, has returned.
C19_Witness ==
    /\ pc = "returned"
    /\ N >= 2
    /\ SilentChunks = Idx

\* C20: the text of a returned run is the recorded texts joined in increasing
\* chunk-index order with nothing between them, and its segments are in
\* chunk order, whatever order the tasks completed in.
C20_IndexOrderJoin ==
    pc = "returned" =>
        /\ runResult.text = TextUpTo(N)
        /\ \A a, b \in 1..Len(runResult.segments) :
              a < b => runResult.segments[a].start < runResult.segments[b].start
        /\ variant = "chat" =>
              /\ Len(runResult.segments) = N
              /\ \A i \in Idx : runResult.segments[i].text = Get(results, i)

\* C20 witness: a run has returned after a task completed before a task of a
\* lower index, with two different non-empty texts recorded.
C20_Witness ==
    /\ pc = "returned"
    /\ outOfOrder
    /\ \E i, j \in Idx :
         /\ i < j
         /\ results[i] # EmptyText /\ results[j] # EmptyText
         /\ results[i] # results[j]


-----------------------------------------------------------------------------
(* Claims about the recorded texts and the segments of a run (Spec) *)

\* what transcribeChunk returned for position i, once its call has returned
Returned(i) == Normalize(variant, served[i])

\* the next position after i whose call has started
LaterCalled(i) == { j \in Idx : j > i /\ calls[j] > 0 }

\* the segments of the final list that start at the start of chunk i
FinalOf(i) ==
    SelectSeq(runResult.segments,
              LAMBDA sg : sg.start = chunks[i].startMs \div 1000)

\* a returned segment moved by the start of chunk i
Shifted(sg, i) ==
    Seg(sg.start + chunks[i].startMs \div 1000,
        sg.end + chunks[i].startMs \div 1000, sg.text)

\* C21: when the text transcribeChunk returned for a chunk matches a
\* hallucination pattern, the text recorded for the chunk is "", and the
\* context handed to later chunks is what it would be without that chunk:
\* empty in sliding when the chunk is the first one, and in full_serial the
\* context the chunk itself was called with.
C21_HallucinationFiltered ==
    \A i \in Idx :
        served[i] # NoBody /\ isHallucination(Returned(i).text) =>
            /\ results[i] = EmptyText
            /\ contextMode = "sliding" /\ i = FirstNonSilent =>
                  \A j \in LaterCalled(i) : taskCtx[j] = EmptyText
            /\ contextMode = "full_serial" =>
                  \A j \in LaterCalled(i) :
                      (\A k \in LaterCalled(i) : j <= k) => taskCtx[j] = taskCtx[i]

\* C22: in a returned run every segment the service answered for a chunk is
\* in the final segment list with start and end moved by that chunk's
\* startMs / 1000 and its text unchanged.
C22_SegmentsOffset ==
    pc = "returned" =>
        \A i \in Idx : \A k \in 1..Len(served[i].segments) :
            \E a \in 1..Len(runResult.segments) :
                runResult.segments[a] = Shifted(served[i].segments[k], i)

\* C23: in a returned run a chunk with no segments from the service has one
\* segment [startMs / 1000, endMs / 1000] with its whole text when the text
\* is non-empty and no segment when it is empty; a chunk with segments from
\* the service has those segments (moved by its start) and no other.
C23_SynthesizedSegment ==
    pc = "returned" =>
        \A i \in Idx :
            IF Len(served[i].segments) = 0
            THEN IF Get(results, i) # EmptyText
                 THEN FinalOf(i) = <<Seg(chunks[i].startMs \div 1000,
                                         chunks[i].endMs \div 1000, Get(results, i))>>
                 ELSE FinalOf(i) = <<>>
            ELSE FinalOf(i) =
                    [k \in 1..Len(served[i].segments) |->
                        Shifted(served[i].segments[k], i)]


-----------------------------------------------------------------------------
(* Claims about the normalisation of a response (SpecChunk) *)

\* C27: a call that returns on a 2xx response returns the rich shape's text
\* with its segments when the body has a text, otherwise
\* choices[0].message.content when non-empty, otherwise the top-level content
\* when non-empty, otherwise ""; without a rich text it returns no segments.
C27_ShapeNormalised ==
    cpc = "returned" /\ decoded # NoBody =>
        /\ callResult.text =
              IF decoded.text # Undefined THEN decoded.text
              ELSE IF decoded.choice \notin {Undefined, EmptyText} THEN decoded.choice
              ELSE IF decoded.content \notin {Undefined, EmptyText} THEN decoded.content
              ELSE EmptyText
        /\ callResult.segments =
              IF decoded.text # Undefined THEN decoded.segments ELSE <<>>


-----------------------------------------------------------------------------
(* Claims about the result map of a run (Spec) *)

\* C28: the result slot of every chunk is written at most once in a run, and
\* exactly once in a run that returns; the writer of a silent chunk's slot is
\* the pre-fill, and the writer of a non-silent chunk's slot is the step that
\* made its call (the serial loop, the sliding first step or its own limited
\* task).
C28_WriteOnce ==
    \A i \in Idx :
        /\ Len(writes[i]) <= 1
        /\ pc = "returned" => Len(writes[i]) = 1
        /\ writes[i] # <<>> =>
              /\ chunks[i].isSilent <=> writes[i][1] = "prefill"
              /\ writes[i][1] = "serial" => contextMode = "full_serial"
              /\ writes[i][1] = "first" =>
                    contextMode = "sliding" /\ i = FirstNonSilent
              /\ writes[i][1] = "task" => task[i] = "done"

\* C28 witness: a sliding run of the chat generation has returned with one
\* slot written by the pre-fill, one by the first step and one by a limited
\* task.
C28_Witness ==
    /\ pc = "returned"
    /\ contextMode = "sliding" /\ variant = "chat"
    /\ \E i, j, k \in Idx :
         /\ writes[i] = <<"prefill">>
         /\ writes[j] = <<"first">>
         /\ writes[k] = <<"task">>

\* C29: a run has returned only when none of its chunk tasks is queued or in
\* flight, and every chunk then has an entry in the result map, so the
\* assembly never falls back on "" for a missing entry.
C29_AssemblyAfterTasks ==
    pc = "returned" =>
        \A i \in Idx :
            /\ task[i] \notin {"queued", "inflight", "direct"}
            /\ results[i] # Undefined
            /\ calls[i] > 0 => served[i] # NoBody

\* C29 witness: a run with more non-silent chunks than limiter slots, so that
\* a task had to wait in the queue, has returned.
C29_Witness ==
    /\ pc = "returned"
    /\ Cardinality(NonSilent) > concurrency
    /\ \E i \in Idx : writes[i] = <<"task">> /\ results[i] # EmptyText


-----------------------------------------------------------------------------
(* Claims about calls running side by side (SpecSib) *)

\* the step is the timer of call k firing
TimedOut(k) ==
    /\ sib[k].cpc = "fetching" /\ sib[k].timerArmed
    /\ sib'[k].cpc \in {"backoff", "thrown"}
    /\ Core(sib'[k].err) = Core(timeout(requestTimeout))
          \/ sib'[k].err = maxRetriesExceeded(maxRetries + 1, timeout(requestTimeout))

\* C30: a step in which the timer of one call fires changes nothing of any
\* other call, whether it is awaiting its fetch, its body or its backoff; and
\* every attempt starts with a timer of its own, armed and at zero.
C30_TimeoutIsolated ==
    [][\A k \in Siblings :
          /\ TimedOut(k) => \A j \in Siblings \ {k} : sib'[j] = sib[j]
          /\ sib[k].cpc = "loop" /\ sib'[k].cpc = "fetching" =>
                sib'[k].timerArmed /\ sib'[k].elapsed = 0]_vars

\* C30 witness: the timer of one call has fired while another call, started
\* later, is still awaiting its fetch with its own timer armed and running.
C30_Witness ==
    \E k, j \in Siblings :
        /\ k # j
        /\ sib[k].cpc \in {"backoff", "thrown"}
        /\ Core(sib[k].err) = Core(timeout(requestTimeout))
              \/ sib[k].err = maxRetriesExceeded(maxRetries + 1, timeout(requestTimeout))
        /\ sib[j].cpc = "fetching" /\ sib[j].timerArmed
        /\ sib[j].elapsed > 0 /\ sib[j].elapsed < requestTimeout


-----------------------------------------------------------------------------
(* Claims about the transcribe_audio tool (SpecTool) *)

C25_ConfigErrorFirst ==
    (KeyAbsent /\ request.name = "transcribe_audio") =>
        /\ ops = <<>> /\ sent = 0
        /\ tpc = "responded" => response = ErrorResponse("CONFIG_ERROR")

\* C26: the concurrency a run's limiter is created with is an integer in
\* 1..20, and 5 when the argument is absent.
C26_ConcurrencyClamped ==
    limit # NoLimit =>
        /\ limit \in 1..20
        /\ ~request.hasMaxConcurrency => limit = 5

-----------------------------------------------------------------------------
(* Claims about splitAudio's working directory and loop                    *)

C32_LoopTerminates ==
    /\ [](detectCalled =>
            \A i \in 1..Len(segChunks) : RangeEnd(i) > RangeStart(i))
    /\ [][(spc = "loop" /\ spc' = "loop") => currentStart' > currentStart]_vars
    /\ <>(spc \in {"returned", "thrown"})

\* C32 witness: the loop has ended after three iterations, the last range
\* being shorter than the maximum.
C32_Witness ==
    /\ spc = "returned"
    /\ detectCalled
    /\ Len(segChunks) = 3
    /\ RangeEnd(3) - RangeStart(3) < maxChunkDurationSec
    /\ currentStart >= totalDuration

-----------------------------------------------------------------------------
(* Claims about the attempts of one transcribeChunk call                   *)

\* C35: with maxRetries >= 0 a call makes between 1 and maxRetries + 1
\* requests, a call that returned returns the normalised body of its last
\* request, which did not fail (it got a 2xx response and its body decoded),
\* and the loop test never fails, so the return after the loop is not reached.
C35_ReturnOnlyFromSuccess ==
    maxRetries >= 0 =>
        /\ requests <= maxRetries + 1
        /\ cpc \in {"returned", "thrown"} => requests >= 1
        /\ cpc = "returned" =>
              /\ decoded # NoBody
              /\ Len(errs) = requests - 1
              /\ callResult = Normalize(variant, decoded)
        /\ ~(cpc = "loop" /\ attempt > maxRetries)

\* C35 witness: a call that returned from its last allowed attempt after two
\* failed ones.
C35_Witness ==
    /\ cpc = "returned"
    /\ maxRetries = 2
    /\ requests = 3
    /\ Len(errs) = 2
    /\ decoded # NoBody

\* the retry path of the k-th failed attempt: a delay of 1000 * k ms and
\* another attempt, or on the last allowed attempt the 'max retries exceeded'
\* error wrapping it
RetryPath(k) ==
    /\ errs[k].retryable
    /\ k < Len(errs) => /\ Len(delays) >= k
                        /\ delays[k] = BackoffDelay(k - 1)
    /\ (k = Len(errs) /\ k <= maxRetries) =>
          /\ cpc # "thrown"
          /\ cpc = "backoff" => sleepLeftMs + sleptMs = BackoffDelay(k - 1)
          /\ cpc # "backoff" => /\ Len(delays) = k
                                /\ delays[k] = BackoffDelay(k - 1)
    /\ (k = Len(errs) /\ k > maxRetries) =>
          /\ k = maxRetries + 1
          /\ cpc = "thrown"
          /\ callErr.kind = "maxRetriesExceeded"
          /\ callErr.attempts = maxRetries + 1
          /\ callErr.cause = Core(errs[k])

\* C36: a rejected fetch and a rejected body decode are recorded as a
\* retryable APIError without status code, and such a failure is followed by
\* the same backoff, retry and 'max retries exceeded' path as a 5xx response.
C36_NetworkRetryable ==
    \A k \in 1..Len(errs) :
        /\ errs[k].kind = "network" =>
              /\ errs[k].statusCode = NoStatus
              /\ statusLog[k] = NoStatus
              /\ RetryPath(k)
        /\ (errs[k].kind = "http" /\ errs[k].statusCode >= 500) => RetryPath(k)

\* C36 witness: a rejected fetch, then a rejected body decode on the last
\* allowed attempt, and the call has thrown.
C36_Witness ==
    /\ cpc = "thrown"
    /\ maxRetries = 1
    /\ Len(errs) = 2
    /\ errs[1].kind = "network" /\ errs[2].kind = "network"
    /\ callErr.kind = "maxRetriesExceeded"

-----------------------------------------------------------------------------
(* Claims about the end of a run                                           *)

Ended == pc \in {"returned", "thrown"}

\* C33: under fair scheduling every run ends, with a result and no error or
\* with an error and no result, and that outcome never changes afterwards;
\* from some point on the limiter's queue is empty and no task is waiting or
\* running.
C33_RunEnds ==
    /\ <>Ended
    /\ [](pc = "returned" => runResult # NoResult /\ runError = NoError)
    /\ [](pc = "thrown" => runResult = NoResult /\ runError # NoError)
    /\ [][Ended => UNCHANGED <<pc, runResult, runError>>]_vars
    /\ <>[](queue = <<>> /\ \A i \in Idx : task[i] \in {"none", "done", "failed"})

\* C33 witness: a run of three chunks through a limiter of one slot has
\* returned: two tasks waited in the queue and were started.
C33_Witness ==
    /\ pc = "returned"
    /\ N = 3 /\ concurrency = 1
    /\ contextMode = "none"
    /\ \A i \in Idx : task[i] = "done"
    /\ queue = <<>>

\* C34: the step in which a limited task fails leaves every other call in
\* flight in flight and starts the task at the head of the queue; once the
\* run has been reported as failed it stays failed with the same error and no
\* result is ever assembled, whatever the remaining tasks write.
C34_SiblingsNotCancelled ==
    /\ [][\A i \in Idx :
            (task[i] = "inflight" /\ task'[i] = "failed") =>
                /\ \A j \in Idx \ {i} :
                      task[j] = "inflight" => task'[j] = "inflight"
                /\ queue # <<>> => /\ task'[Head(queue)] = "inflight"
                                   /\ queue' = Tail(queue)]_vars
    /\ [][pc = "thrown" =>
            /\ UNCHANGED <<pc, runError, runResult>>
            /\ runResult = NoResult]_vars

\* C34 witness: behind a limiter of one slot the first task failed and the run
\* was reported as failed; the second task was started afterwards and has
\* written its result, which no assembly has read.
C34_Witness ==
    /\ pc = "thrown"
    /\ concurrency = 1
    /\ N >= 2
    /\ task[1] = "failed" /\ task[2] = "done"
    /\ writes[2] = <<"task">>
    /\ results[2] # Undefined
    /\ runResult = NoResult

-----------------------------------------------------------------------------
(* Claims about the tool-call handler                                      *)

KnownTool == request.name \in {"transcribe_audio", "get_audio_info"}

\* C37: a request is answered at most once and a handled request ends with
\* an answer; a request for a known tool whose path does not exist is
\* answered AUDIO_FILE_ERROR with no media step run, no chunk sent and, on a
\* fresh server, no transcriber constructed; every error answer names the code
\* of the error; an unknown tool name is answered 'Unknown tool'.
C37_HandlerAnswers ==
    /\ tpc = "responded" <=> response # NoResponse
    /\ (tpc = "responded" /\ KnownTool /\ ~request.exists) =>
          /\ response = ErrorResponse("AUDIO_FILE_ERROR")
          /\ ops = <<>> /\ sent = 0 /\ limit = NoLimit
          /\ handled = 1 => ~transcriber
    /\ response.kind \in {"error", "readError"} => response.code \in ASRErrorCodes
    /\ (tpc = "responded" /\ ~KnownTool) =>
          /\ response = UnknownToolResponse
          /\ ops = <<>> /\ sent = 0

====
